---- MODULE Spec2Model ----
(***************************************************************************)
(* A model of chainer_chemistry/models/relgcn.py (rescale_adj,             *)
(* RelGCNUpdate, RelGCNReadout, RelGCN) and of the NFPPreprocessor that    *)
(* tests/dataset_tests/preprocessors_tests/test_nfp_preprocessor.py        *)
(* exercises.                                                              *)
(*                                                                         *)
(* Arrays are records [shape, data]: data is the row-major (C order)       *)
(* element sequence, as numpy lays an array out.  Elements are exact       *)
(* rationals <<numerator, denominator>> in lowest terms; float32 rounding  *)
(* is not modelled.                                                        *)
(***************************************************************************)
EXTENDS Integers, Sequences, FiniteSets, TLC

\* ------------------------------------------------------------ bounds
MaxNodes == 2
MaxEdgeType == 2
MaxLayers == 2

\* Sizes the inputs are drawn from.
Batches == {1, 2}
Channels == {2, 3}
OutChannels == {1, 4}
\* An adjacency input has at most one non-zero "slot" per element of Slots
\* (two slots on the same entry give the entry 2).
Slots == {1, 2}

\* ------------------------------------------------------- rationals
Abs(n) == IF n < 0 THEN -n ELSE n

RECURSIVE GCD(_, _)
GCD(a, b) == IF b = 0 THEN a ELSE GCD(b, a % b)

\* n/d in lowest terms with a positive denominator; d = 0 is kept as
\* <<sign, 0>> (inf, or nan for 0/0).
Frac(n, d) ==
    IF d = 0 THEN <<IF n > 0 THEN 1 ELSE IF n < 0 THEN -1 ELSE 0, 0>>
    ELSE LET g == GCD(Abs(n), Abs(d))
             s == IF d < 0 THEN -1 ELSE 1
         IN  <<s * (n \div g), s * (d \div g)>>

Num(n) == <<n, 1>>
Zero == Num(0)
One == Num(1)
RAdd(p, q) == Frac(p[1] * q[2] + q[1] * p[2], p[2] * q[2])
RMul(p, q) == Frac(p[1] * q[1], p[2] * q[2])
RInv(p) == Frac(p[2], p[1])

\* s[1] + ... + s[n]
RECURSIVE RSumTo(_, _)
RSumTo(s, n) == IF n = 0 THEN Zero ELSE RAdd(RSumTo(s, n - 1), s[n])

RSum(s) == RSumTo(s, Len(s))

\* The elements of a finite set of integers in increasing order.
RECURSIVE SortedSeq(_)
SortedSeq(S) ==
    IF S = {} THEN <<>>
    ELSE LET m == CHOOSE v \in S : \A w \in S : v <= w
         IN  <<m>> \o SortedSeq(S \ {m})

\* --------------------------------------------------------- arrays
RECURSIVE Prod(_)
Prod(s) == IF s = <<>> THEN 1 ELSE Head(s) * Prod(Tail(s))

\* Row-major flat offset (0-based) of a 0-based multi-index, and back.
RECURSIVE RavelTo(_, _, _)
RavelTo(idx, shape, n) ==
    IF n = 0 THEN 0 ELSE RavelTo(idx, shape, n - 1) * shape[n] + idx[n]

Ravel(idx, shape) == RavelTo(idx, shape, Len(shape))

\* Number of elements one step along axis a spans.
RECURSIVE Stride(_, _)
Stride(shape, a) ==
    IF a = Len(shape) THEN 1 ELSE shape[a + 1] * Stride(shape, a + 1)

Unravel(k, shape) ==
    <<>> \o [a \in 1..Len(shape) |-> (k \div Stride(shape, a)) % shape[a]]

Indices(shape) == {Unravel(k, shape) : k \in 0..(Prod(shape) - 1)}

At(arr, at) == arr.data[Ravel(at, arr.shape) + 1]

\* The array of the given shape whose element at idx is Elem(idx).
\* (<<>> \o f makes the element sequence an explicit tuple.)
MkArray(mkshape, MkElem(_)) ==
    [shape |-> mkshape,
     data |-> <<>> \o [mk \in 1..Prod(mkshape) |->
                         MkElem(Unravel(mk - 1, mkshape))]]

\* No array (a result not yet computed).
NoArray == [shape |-> <<0>>, data |-> <<>>]

\* Shape of functions.sum(t, axis=axes): the summed axes (0-based) removed.
sum_shape(shape, axes) ==
    LET kept == SortedSeq({a \in 1..Len(shape) : (a - 1) \notin axes})
    IN  [i \in 1..Len(kept) |-> shape[kept[i]]]

\* functions.sum(t, axis=axes)
F_sum(st, saxes) ==
    LET rank == Len(st.shape)
        kept == SortedSeq({sa \in 1..rank : (sa - 1) \notin saxes})
        summed == SortedSeq({sa \in 1..rank : (sa - 1) \in saxes})
        sshape == <<>> \o [si \in 1..Len(summed) |-> st.shape[summed[si]]]
        count == Prod(sshape)
        Place(seq, sa) == CHOOSE si \in 1..Len(seq) : seq[si] = sa
        SElem(oidx) ==
            RSumTo([sq \in 1..count |->
                      LET sidx == Unravel(sq - 1, sshape)
                      IN  At(st, [sa \in 1..rank |->
                                    IF (sa - 1) \in saxes
                                    THEN sidx[Place(summed, sa)]
                                    ELSE oidx[Place(kept, sa)]])],
                   count)
    IN  MkArray(sum_shape(st.shape, saxes), SElem)

\* functions.where(cond, a, b), cond a Boolean array of the same shape
F_where(cond, a, b) ==
    [shape |-> a.shape,
     data |-> <<>> \o [k \in 1..Len(a.data) |->
                  IF cond.data[k] THEN a.data[k] ELSE b.data[k]]]

\* xp.ones(shape)
ones(shape) ==
    [shape |-> shape, data |-> <<>> \o [k \in 1..Prod(shape) |-> One]]

\* 1 / t, elementwise
Reciprocal(t) ==
    [shape |-> t.shape, data |-> <<>> \o [k \in 1..Len(t.data) |-> RInv(t.data[k])]]

\* a * b, elementwise, for arrays of equal shape
Multiply(a, b) ==
    [shape |-> a.shape,
     data |-> <<>> \o [k \in 1..Len(a.data) |-> RMul(a.data[k], b.data[k])]]

\* a + b, elementwise, for arrays of equal shape
Add(a, b) ==
    [shape |-> a.shape,
     data |-> <<>> \o [k \in 1..Len(a.data) |-> RAdd(a.data[k], b.data[k])]]

\* functions.reshape(t, shape): same elements in the same row-major order
F_reshape(t, shape) == [shape |-> shape, data |-> t.data]

\* functions.broadcast_to(t, shape) for t of the same rank as shape:
\* an axis of length 1 in t is repeated.
F_broadcast_to(bt, bshape) ==
    LET BElem(bidx) ==
            At(bt, [ba \in 1..Len(bshape) |->
                       IF bt.shape[ba] = 1 THEN 0 ELSE bidx[ba]])
    IN  MkArray(bshape, BElem)

\* functions.transpose(t, axes), axes 0-based: axis a of the result is
\* axis axes[a] of t.
F_transpose(tt, axes) ==
    LET tshape == [ta \in 1..Len(axes) |-> tt.shape[axes[ta] + 1]]
        TElem(tidx) ==
            At(tt, [tb \in 1..Len(axes) |->
                       tidx[CHOOSE tc \in 1..Len(axes) : axes[tc] + 1 = tb]])
    IN  MkArray(tshape, TElem)

\* functions.matmul(a, b) of (..., n, k) and (..., k, m) with equal
\* leading axes
F_matmul(ma, mb_) ==
    LET r == Len(ma.shape)
        inner == ma.shape[r]
        mshape == SubSeq(ma.shape, 1, r - 1) \o <<mb_.shape[r]>>
        MElem(midx) ==
            RSumTo([mk_ \in 1..inner |->
                    RMul(At(ma, [mq \in 1..r |->
                                    IF mq = r THEN mk_ - 1 ELSE midx[mq]]),
                         At(mb_, [mq \in 1..r |->
                                    IF mq = r - 1 THEN mk_ - 1
                                    ELSE midx[mq]]))], inner)
    IN  MkArray(mshape, MElem)

\* ------------------------------------------------------ rescale_adj
\* rescale_adj with the neighbours counted over axes (1, 3)
rescale_adj_sum13(adj) ==
    LET num_neighbors == F_sum(adj, {1, 3})
        base == ones(num_neighbors.shape)
        cond == [shape |-> num_neighbors.shape,
                 data |-> <<>> \o [k \in 1..Len(num_neighbors.data) |->
                              num_neighbors.data[k] # Zero]]
        num_neighbors_inv == Reciprocal(F_where(cond, num_neighbors, base))
        mb == adj.shape[1]
        node == adj.shape[4]
    IN  Multiply(adj,
                 F_broadcast_to(
                     F_reshape(num_neighbors_inv, <<mb, 1, 1, node>>),
                     adj.shape))

\* rescale_adj(adj)
rescale_adj(adj) ==
    LET num_neighbors == F_sum(adj, {1, 2})
        base == ones(num_neighbors.shape)
        cond == [shape |-> num_neighbors.shape,
                 data |-> <<>> \o [k \in 1..Len(num_neighbors.data) |->
                              num_neighbors.data[k] # Zero]]
        num_neighbors_inv == Reciprocal(F_where(cond, num_neighbors, base))
        mb == adj.shape[1]
        node == adj.shape[4]
    IN  Multiply(adj,
                 F_broadcast_to(
                     F_reshape(num_neighbors_inv, <<mb, 1, 1, node>>),
                     adj.shape))

\* ------------------------------------------------- adjacency inputs
\* Arrays of a shape with non-negative integer entries: each slot of a
\* subset of Slots puts 1 on one entry.
SparseArrays(shape, slots) ==
    LET n == Prod(shape)
    IN  {[shape |-> shape,
          data |-> <<>> \o [k \in 1..n |->
                       Num(Cardinality({s \in DOMAIN f : f[s] = k}))]] :
            f \in UNION {[S -> 1..n] : S \in SUBSET slots}}

\* Adjacency arrays of shape (mb, edge, node, node)
AdjArrays(mb, edge, node) ==
    SparseArrays(<<mb, edge, node, node>>, Slots)

\* ------------------------------------------------------- shapes
\* RelGCN.__call__ is followed on the shapes of its arrays (the weights
\* of a constructed network are not part of the state).  Invalid is the
\* shape of a result the framework refuses to compute.
Invalid == <<-1>>
NoShape == <<>>

\* functions.reshape: the element count must not change
reshape_shape(s, new) ==
    IF s = Invalid \/ Prod(s) # Prod(new) THEN Invalid ELSE new

\* functions.transpose(t, axes), axes 0-based
transpose_shape(s, axes) ==
    IF s = Invalid \/ Len(s) # Len(axes) THEN Invalid
    ELSE [a \in 1..Len(axes) |-> s[axes[a] + 1]]

\* functions.matmul of (..., n, k) and (..., k, m) with equal leading axes
matmul_shape(a, b) ==
    IF a = Invalid \/ b = Invalid \/ Len(a) # Len(b) \/ Len(a) < 2
    THEN Invalid
    ELSE LET n == Len(a)
         IN  IF SubSeq(a, 1, n - 2) = SubSeq(b, 1, n - 2) /\ a[n] = b[n - 1]
             THEN SubSeq(a, 1, n - 1) \o <<b[n]>>
             ELSE Invalid

\* functions.sum(t, axis=axes) on a shape that may be Invalid
sum_axes_shape(s, axes) ==
    IF s = Invalid \/ \E a \in axes : a >= Len(s) THEN Invalid
    ELSE sum_shape(s, axes)

\* a + b and a * b of equal shapes
elementwise_shape(a, b) ==
    IF a = Invalid \/ b = Invalid \/ a # b THEN Invalid ELSE a

\* functions.concat([a, b], axis=2) of rank-3 arrays
concat2_shape(a, b) ==
    IF a = Invalid \/ b = Invalid \/ Len(a) # 3 \/ Len(b) # 3 THEN Invalid
    ELSE IF a[1] = b[1] /\ a[2] = b[2] THEN <<a[1], a[2], a[3] + b[3]>>
    ELSE Invalid

\* GraphLinear(in_size, out_size) applied to (mb, node, ch): a linear layer
\* on the last axis.  in_size 0 stands for None (set by the first call).
GraphLinear_shape(link, s) ==
    IF s = Invalid \/ Len(s) # 3 THEN Invalid
    ELSE IF link.in_size \in {0, s[3]} THEN <<s[1], s[2], link.out_size>>
    ELSE Invalid

\* EmbedAtomID(out_size) applied to atom ids of shape (mb, node)
EmbedAtomID_shape(link, s) ==
    IF Len(s) # 2 THEN Invalid ELSE <<s[1], s[2], link.out_size>>

\* RelGCNUpdate.__init__
RelGCNUpdate_init(in_channels, out_channels, num_edge_type) ==
    [graph_linear_self |-> [in_size |-> in_channels,
                            out_size |-> out_channels],
     graph_linear_edge |-> [in_size |-> in_channels,
                            out_size |-> out_channels * num_edge_type],
     num_edge_type |-> num_edge_type,
     in_ch |-> in_channels,
     out_ch |-> out_channels]

\* RelGCNUpdate.__call__ on shapes
RelGCNUpdate_shape(self, h, adj) ==
    LET mb == h[1]
        node == h[2]
        hs == GraphLinear_shape(self.graph_linear_self, h)
        m1 == GraphLinear_shape(self.graph_linear_edge, h)
        m2 == reshape_shape(m1, <<mb, node, self.out_ch, self.num_edge_type>>)
        m3 == transpose_shape(m2, <<0, 3, 1, 2>>)
        hr1 == matmul_shape(adj, m3)
        hr2 == sum_axes_shape(hr1, {1})
    IN  IF h = Invalid \/ Len(h) # 3 THEN Invalid
        ELSE elementwise_shape(hs, hr2)

\* The parameters of a GraphLinear link: W of shape (out_size, in_size)
\* and b of shape (out_size,), as the linear link holds them.  The values
\* are small integers, different in every row and column.
GraphLinear_params(link, seed) ==
    LET WElem(widx) == Num(((3 * widx[1] + 5 * widx[2] + seed) % 7) - 3)
        bElem(bi) == Num(((2 * bi[1] + seed) % 5) - 2)
    IN  [in_size |-> link.in_size,
         out_size |-> link.out_size,
         W |-> MkArray(<<link.out_size, link.in_size>>, WElem),
         b |-> MkArray(<<link.out_size>>, bElem)]

\* GraphLinear.__call__ on x of shape (s0, s1, s2): the linear layer
\* x W^T + b applied to x reshaped to (s0 * s1, s2)
GraphLinear_call(link, x) ==
    LET s0 == x.shape[1]
        s1 == x.shape[2]
        s2 == x.shape[3]
        x2 == F_reshape(x, <<s0 * s1, s2>>)
        y == Add(F_matmul(x2, F_transpose(link.W, <<1, 0>>)),
                 F_broadcast_to(F_reshape(link.b, <<1, link.out_size>>),
                                <<s0 * s1, link.out_size>>))
    IN  F_reshape(y, <<s0, s1, link.out_size>>)

\* RelGCNUpdate.__call__ with the m of line 60 reshaped to
\* (mb, node, num_edge_type, out_ch) and transposed by (0, 2, 1, 3)
RelGCNUpdate_call_edge_major(self, h, adj) ==
    LET mb == h.shape[1]
        node == h.shape[2]
        hs == GraphLinear_call(self.graph_linear_self, h)
        m1 == GraphLinear_call(self.graph_linear_edge, h)
        m2 == F_reshape(m1, <<mb, node, self.num_edge_type, self.out_ch>>)
        m3 == F_transpose(m2, <<0, 2, 1, 3>>)
        hr1 == F_matmul(adj, m3)
        hr2 == F_sum(hr1, {1})
    IN  Add(hs, hr2)

\* RelGCNUpdate.__call__
RelGCNUpdate_call(self, h, adj) ==
    LET mb == h.shape[1]
        node == h.shape[2]
        hs == GraphLinear_call(self.graph_linear_self, h)
        m1 == GraphLinear_call(self.graph_linear_edge, h)
        m2 == F_reshape(m1, <<mb, node, self.out_ch, self.num_edge_type>>)
        m3 == F_transpose(m2, <<0, 3, 1, 2>>)
        hr1 == F_matmul(adj, m3)
        hr2 == F_sum(hr1, {1})
    IN  Add(hs, hr2)

\* RelGCNReadout.__init__
RelGCNReadout_init(in_channels, out_channels) ==
    [sig_linear |-> [in_size |-> in_channels, out_size |-> out_channels],
     tanh_linear |-> [in_size |-> in_channels, out_size |-> out_channels]]

\* RelGCNReadout.__call__ on shapes without the sum over the node axis
RelGCNReadout_shape_no_sum(self, h, x) ==
    LET in_feat == IF x = NoShape THEN h ELSE concat2_shape(h, x)
        sig_feat == GraphLinear_shape(self.sig_linear, in_feat)
        tanh_feat == GraphLinear_shape(self.tanh_linear, in_feat)
    IN  elementwise_shape(sig_feat, tanh_feat)

\* RelGCNReadout.__call__ on shapes; x = NoShape stands for x=None
RelGCNReadout_shape(self, h, x) ==
    LET in_feat == IF x = NoShape THEN h ELSE concat2_shape(h, x)
        sig_feat == GraphLinear_shape(self.sig_linear, in_feat)
        tanh_feat == GraphLinear_shape(self.tanh_linear, in_feat)
    IN  sum_axes_shape(elementwise_shape(sig_feat, tanh_feat), {1})

\* ------------------------------------------------------------ RelGCN
\* ch_list=None
NoChList == <<0>>
\* the ch_list arguments: None, or up to MaxLayers channel counts
ChLists ==
    {NoChList} \cup UNION {[1..n -> Channels] : n \in 0..MaxLayers}

InputTypes == {"int", "float", "onehot"}

NoNet == [constructed |-> FALSE]

\* The links with update layer i built as
\* RelGCNUpdate(ch_list[i+1], ch_list[i], num_edge_type)
RelGCN_links_swapped(out_channels, num_edge_type, ch_list, input_type, scale_adj) ==
    [constructed |-> TRUE,
     embed |-> IF input_type = "int"
               THEN [kind |-> "EmbedAtomID", in_size |-> 0,
                     out_size |-> ch_list[1]]
               ELSE [kind |-> "GraphLinear", in_size |-> 0,
                     out_size |-> ch_list[1]],
     rgcn_convs |-> [i \in 1..(Len(ch_list) - 1) |->
                        RelGCNUpdate_init(ch_list[i + 1], ch_list[i],
                                          num_edge_type)],
     rgcn_readout |-> RelGCNReadout_init(ch_list[Len(ch_list)], out_channels),
     input_type |-> input_type,
     scale_adj |-> scale_adj]

\* The links RelGCN.__init__ registers, for a non-empty ch_list
RelGCN_links(out_channels, num_edge_type, ch_list, input_type, scale_adj) ==
    [constructed |-> TRUE,
     embed |-> IF input_type = "int"
               THEN [kind |-> "EmbedAtomID", in_size |-> 0,
                     out_size |-> ch_list[1]]
               ELSE [kind |-> "GraphLinear", in_size |-> 0,
                     out_size |-> ch_list[1]],
     rgcn_convs |-> [i \in 1..(Len(ch_list) - 1) |->
                        RelGCNUpdate_init(ch_list[i], ch_list[i + 1],
                                          num_edge_type)],
     rgcn_readout |-> RelGCNReadout_init(ch_list[Len(ch_list)], out_channels),
     input_type |-> input_type,
     scale_adj |-> scale_adj]

\* RelGCN.__init__ with the final else (unexpected input_type) missing: any
\* other input_type is taken as 'float'.
RelGCN_init_any_type(out_channels, num_edge_type, ch_list_arg, input_type, scale_adj) ==
    LET ch_list == IF ch_list_arg = NoChList THEN <<16, 128, 64>>
                   ELSE ch_list_arg
    IN  IF ch_list = <<>>
        THEN [err |-> "IndexError", net |-> NoNet]
        ELSE [err |-> "none",
              net |-> RelGCN_links(out_channels, num_edge_type, ch_list,
                                   input_type, scale_adj)]

\* RelGCN.__init__: the exception it raises ("none": it returns) and the
\* network it leaves.  ch_list[0] of an empty list raises IndexError.
RelGCN_init(out_channels, num_edge_type, ch_list_arg, input_type, scale_adj) ==
    LET ch_list == IF ch_list_arg = NoChList THEN <<16, 128, 64>>
                   ELSE ch_list_arg
    IN  IF input_type \notin {"int", "float"}
        THEN [err |-> "ValueError", net |-> NoNet]
        ELSE IF ch_list = <<>>
        THEN [err |-> "IndexError", net |-> NoNet]
        ELSE [err |-> "none",
              net |-> RelGCN_links(out_channels, num_edge_type, ch_list,
                                   input_type, scale_adj)]

\* Small adjacency arrays a call is given: no edge, every edge, self loops.
AdjSamples(mb, edge, node) ==
    LET shape == <<mb, edge, node, node>>
        Const(v) == [shape |-> shape, data |-> <<>> \o [k \in 1..Prod(shape) |-> v]]
        EyeElem(eidx) == IF eidx[3] = eidx[4] THEN One ELSE Zero
    IN  {Const(Zero), Const(One), MkArray(shape, EyeElem)}

NoEvent == <<>>
Event(op, layer, a) == [op |-> op, layer |-> layer, adj |-> a]

\* ------------------------------------------------------------ state
VARIABLES
    pc,       \* where the RelGCN object is: start (not constructed), failed
              \* (__init__ raised), ready (constructed, no call running),
              \* scale, conv, return (inside __call__)
    net,      \* the constructed RelGCN (its links and attributes), or NoNet
    args,     \* the arguments __init__ was given
    err,      \* the exception the last __init__ or __call__ raised, or "none"
    x,        \* __call__'s x: [dtype, shape]
    adj_in,   \* __call__'s adj argument as the caller passed it
    adj,      \* __call__'s local adj
    h,        \* shape of __call__'s local h
    layer,    \* index of the next update layer of the for loop
    trace,    \* the links and functions the running call has applied
    ret,      \* shape of the array the last call returned
    rs_pc,    \* rescale_adj alone: input, rescaled
    rs_adj,   \* its argument
    rs_out,   \* its result
    up_pc,    \* a RelGCNUpdate link alone: start, ready, done
    up_link,  \* the link with its parameters
    up_h,     \* __call__'s h
    up_adj,   \* __call__'s adj
    up_out,   \* __call__'s result
    pp_pc,    \* an NFPPreprocessor: start, failed, ready, done
    pp,       \* the constructed preprocessor, or NoPP
    pp_args,  \* the arguments its __init__ was given
    pp_err,   \* the exception __init__ or get_input_features raised
    mol,      \* the molecule get_input_features was given
    features  \* what get_input_features returned

locals == <<x, adj_in, adj, h, layer, trace>>
netvars == <<pc, net, args, err, locals, ret>>
rsvars == <<rs_pc, rs_adj, rs_out>>
upvars == <<up_pc, up_link, up_h, up_adj, up_out>>
ppvars == <<pp_pc, pp, pp_args, pp_err, mol, features>>
vars == <<netvars, rsvars, upvars, ppvars>>

NoX == [dtype |-> "none", shape |-> NoShape]
NoArgs == [out_channels |-> 0, num_edge_type |-> 0, ch_list |-> NoChList,
           input_type |-> "none", scale_adj |-> FALSE]
NoLink == [constructed |-> FALSE]

\* No call is running: __call__'s locals do not exist.
NoLocals ==
    /\ x = NoX /\ adj_in = NoArray /\ adj = NoArray
    /\ h = NoShape /\ layer = 0 /\ trace = <<>>

RsIdle == rs_pc = "idle" /\ rs_adj = NoArray /\ rs_out = NoArray
UpIdle ==
    /\ up_pc = "idle" /\ up_link = NoLink /\ up_h = NoArray
    /\ up_adj = NoArray /\ up_out = NoArray
NoPP == [constructed |-> FALSE]
NoPPArgs == [max_atoms |-> -1, out_size |-> -1]
NoMol == [atoms |-> <<>>, bonds |-> {}]
NoFeatures == <<>>
PpIdle ==
    /\ pp_pc = "idle" /\ pp = NoPP /\ pp_args = NoPPArgs /\ pp_err = "none"
    /\ mol = NoMol /\ features = NoFeatures
NetIdle ==
    /\ pc = "idle" /\ net = NoNet /\ args = NoArgs /\ err = "none"
    /\ NoLocals /\ ret = NoShape

\* ---------------------------------------------------- RelGCN actions
Init ==
    /\ pc = "start" /\ net = NoNet /\ args = NoArgs /\ err = "none"
    /\ NoLocals /\ ret = NoShape
    /\ RsIdle /\ UpIdle /\ PpIdle

\* RelGCN.__init__
Construct ==
    /\ pc = "start"
    /\ \E out_channels \in OutChannels, num_edge_type \in 1..MaxEdgeType,
          ch_list \in ChLists, input_type \in InputTypes,
          scale_adj \in BOOLEAN :
          LET made == RelGCN_init(out_channels, num_edge_type, ch_list,
                                  input_type, scale_adj)
          IN  /\ args' = [out_channels |-> out_channels,
                          num_edge_type |-> num_edge_type,
                          ch_list |-> ch_list,
                          input_type |-> input_type,
                          scale_adj |-> scale_adj]
              /\ err' = made.err
              /\ net' = made.net
              /\ pc' = IF made.err = "none" THEN "ready" ELSE "failed"
    /\ UNCHANGED <<locals, ret, rsvars, upvars, ppvars>>

\* An exception leaves __call__: its locals are gone, the network stays.
Raise(e) ==
    /\ err' = e
    /\ pc' = "ready"
    /\ x' = NoX /\ adj_in' = NoArray /\ adj' = NoArray
    /\ h' = NoShape /\ layer' = 0 /\ trace' = <<>>

\* RelGCN.__call__ up to h = self.embed(x)
Call ==
    /\ pc = "ready"
    /\ \E mb \in Batches, node \in 1..MaxNodes, edge \in 1..MaxEdgeType,
          dtype \in {"int32", "float32"}, in_channels \in Channels :
          \E a \in AdjSamples(mb, edge, node) :
          LET shape == IF dtype = "int32" THEN <<mb, node>>
                       ELSE <<mb, node, in_channels>>
              embedded == IF net.embed.kind = "EmbedAtomID"
                          THEN EmbedAtomID_shape(net.embed, shape)
                          ELSE GraphLinear_shape(net.embed, shape)
          IN  /\ \A i \in DOMAIN net.rgcn_convs :
                    net.rgcn_convs[i].num_edge_type = edge
              /\ dtype = "int32" => \A c \in Channels : in_channels <= c
              /\ IF (dtype = "int32") # (net.input_type = "int")
                 THEN Raise("AssertionError") /\ net' = net
                 ELSE IF embedded = Invalid
                 THEN Raise("InvalidType") /\ net' = net
                 ELSE /\ err' = "none"
                      /\ pc' = "scale"
                      /\ x' = [dtype |-> dtype, shape |-> shape]
                      /\ adj_in' = a
                      /\ adj' = a
                      /\ layer' = 0
                      /\ h' = embedded
                      /\ trace' = <<Event("embed", 0, NoArray)>>
                      /\ net' = IF net.embed.kind = "GraphLinear"
                                THEN [net EXCEPT !.embed.in_size = shape[3]]
                                ELSE net
    /\ ret' = NoShape
    /\ UNCHANGED <<args, rsvars, upvars, ppvars>>

\* The step with scale_adj ignored: adj is never rescaled.
Scale_never ==
    /\ pc = "scale"
    /\ layer' = 1
    /\ pc' = "conv"
    /\ UNCHANGED <<net, args, err, x, adj_in, adj, h, trace, ret, rsvars,
                   upvars, ppvars>>

\* if self.scale_adj: adj = rescale_adj(adj)
Scale ==
    /\ pc = "scale"
    /\ IF net.scale_adj
       THEN /\ adj' = rescale_adj(adj)
            /\ trace' = Append(trace, Event("rescale_adj", 0, adj'))
       ELSE UNCHANGED <<adj, trace>>
    /\ layer' = 1
    /\ pc' = "conv"
    /\ UNCHANGED <<net, args, err, x, adj_in, h, ret, rsvars, upvars, ppvars>>

\* one pass of: for rgcn_conv in self.rgcn_convs:
\*                  h = functions.tanh(rgcn_conv(h, adj))
Conv ==
    /\ pc = "conv"
    /\ layer <= Len(net.rgcn_convs)
    /\ LET out == RelGCNUpdate_shape(net.rgcn_convs[layer], h, adj.shape)
       IN  IF out = Invalid
           THEN Raise("InvalidType")
           ELSE /\ h' = out
                /\ layer' = layer + 1
                /\ trace' = Append(trace, Event("update", layer, adj))
                /\ UNCHANGED <<err, pc, x, adj_in, adj>>
    /\ UNCHANGED <<net, args, ret, rsvars, upvars, ppvars>>

\* h = self.rgcn_readout(h), after the last pass of the loop
Readout ==
    /\ pc = "conv"
    /\ layer > Len(net.rgcn_convs)
    /\ LET out == RelGCNReadout_shape(net.rgcn_readout, h, NoShape)
       IN  IF out = Invalid
           THEN Raise("InvalidType")
           ELSE /\ h' = out
                /\ pc' = "return"
                /\ trace' = Append(trace, Event("readout", 0, NoArray))
                /\ UNCHANGED <<err, x, adj_in, adj, layer>>
    /\ UNCHANGED <<net, args, ret, rsvars, upvars, ppvars>>

\* return h
Return ==
    /\ pc = "return"
    /\ ret' = h
    /\ pc' = "ready"
    /\ x' = NoX /\ adj_in' = NoArray /\ adj' = NoArray
    /\ h' = NoShape /\ layer' = 0 /\ trace' = <<>>
    /\ UNCHANGED <<net, args, err, rsvars, upvars, ppvars>>

Next == Construct \/ Call \/ Scale \/ Conv \/ Readout \/ Return

Spec == Init /\ [][Next]_vars

\* ------------------------------------- rescale_adj as a pure function
RescaleInit ==
    /\ rs_pc = "input"
    /\ \E mb \in Batches, edge \in 1..MaxEdgeType, node \in 1..MaxNodes :
          rs_adj \in AdjArrays(mb, edge, node)
    /\ rs_out = NoArray
    /\ NetIdle /\ UpIdle /\ PpIdle

Rescale ==
    /\ rs_pc = "input"
    /\ rs_out' = rescale_adj(rs_adj)
    /\ rs_pc' = "rescaled"
    /\ UNCHANGED <<rs_adj, netvars, upvars, ppvars>>

RescaleNext == Rescale

SpecRescale == RescaleInit /\ [][RescaleNext]_vars

\* ------------------------------------------ one RelGCNUpdate link
UpdChannels == {1, 2}
ParamSeeds == {0, 1}

UpdateInit ==
    /\ up_pc = "start" /\ up_link = NoLink /\ up_h = NoArray
    /\ up_adj = NoArray /\ up_out = NoArray
    /\ NetIdle /\ RsIdle /\ PpIdle

\* RelGCNUpdate.__init__, the parameters being any of the sampled ones
UpdateConstruct ==
    /\ up_pc = "start"
    /\ \E in_channels \in UpdChannels, out_channels \in UpdChannels,
          num_edge_type \in 1..MaxEdgeType, seed \in ParamSeeds :
          LET link == RelGCNUpdate_init(in_channels, out_channels,
                                        num_edge_type)
          IN  up_link' =
                 [link EXCEPT
                    !.graph_linear_self =
                        GraphLinear_params(link.graph_linear_self, seed),
                    !.graph_linear_edge =
                        GraphLinear_params(link.graph_linear_edge, seed + 2)]
    /\ up_pc' = "ready"
    /\ UNCHANGED <<up_h, up_adj, up_out, netvars, rsvars, ppvars>>

\* RelGCNUpdate.__call__
UpdateCall ==
    /\ up_pc = "ready"
    /\ \E mb \in Batches, node \in 1..MaxNodes :
          \E hh \in SparseArrays(<<mb, node, up_link.in_ch>>, {1}),
             a \in SparseArrays(<<mb, up_link.num_edge_type, node, node>>,
                                {1})
                   \cup AdjSamples(mb, up_link.num_edge_type, node) :
             /\ up_h' = hh
             /\ up_adj' = a
             /\ up_out' = RelGCNUpdate_call(up_link, hh, a)
    /\ up_pc' = "done"
    /\ UNCHANGED <<up_link, netvars, rsvars, ppvars>>

UpdateNext == UpdateConstruct \/ UpdateCall

SpecUpdate == UpdateInit /\ [][UpdateNext]_vars

\* ------------------------------------------------- NFPPreprocessor
\* The preprocessor's code is not among the sources; it is modelled as the
\* tests use it: max_atoms bounds the molecules accepted, out_size is the
\* size the arrays are zero-padded to, a negative value switches either off.
AtomCounts == 1..4
Elements == {6, 7, 8}
BondOrders == {1, 2, 3}
MaxAtomsArgs == {-1, 3}
OutSizeArgs == {-1, 2, 5}

\* Molecules of n atoms (numbered from 0): a chain in which consecutive
\* atoms are bonded with some order or not at all, optionally closed into
\* a ring by a single bond between the first and the last atom.
Molecules(n) ==
    {[atoms |-> atoms,
      bonds |-> {[begin |-> i - 1, end |-> i, order |-> chain[i]] :
                    i \in {c \in 1..(n - 1) : chain[c] > 0}}
                \cup (IF ring /\ n >= 3
                      THEN {[begin |-> 0, end |-> n - 1, order |-> 1]}
                      ELSE {})] :
        atoms \in [1..n -> Elements],
        chain \in [1..(n - 1) -> BondOrders \cup {0}],
        ring \in BOOLEAN}

\* NFPPreprocessor.__init__ without the comparison of its arguments
NFPPreprocessor_init_unchecked(max_atoms, out_size) ==
    [err |-> "none",
     pp |-> [constructed |-> TRUE, max_atoms |-> max_atoms,
             out_size |-> out_size]]

\* NFPPreprocessor.__init__(max_atoms, out_size)
NFPPreprocessor_init(max_atoms, out_size) ==
    IF max_atoms >= 0 /\ out_size >= 0 /\ max_atoms > out_size
    THEN [err |-> "ValueError", pp |-> NoPP]
    ELSE [err |-> "none",
          pp |-> [constructed |-> TRUE, max_atoms |-> max_atoms,
                  out_size |-> out_size]]

\* The atomic numbers in atom order as int32, zero-padded to out_size
construct_atomic_number_array(m, out_size) ==
    LET n == Len(m.atoms)
    IN  IF out_size < 0
        THEN [err |-> "none", dtype |-> "int32", data |-> m.atoms]
        ELSE IF out_size >= n
        THEN [err |-> "none", dtype |-> "int32",
              data |-> <<>> \o [i \in 1..out_size |->
                                  IF i <= n THEN m.atoms[i] ELSE 0]]
        ELSE [err |-> "ValueError", dtype |-> "int32", data |-> <<>>]

\* The adjacency matrix without the self connection
construct_adj_matrix_no_self(m, out_size) ==
    LET n == Len(m.atoms)
        Bonded(i, j) ==
            \E b \in m.bonds : {b.begin, b.end} = {i - 1, j - 1}
        Entry(i, j) ==
            IF i > n \/ j > n THEN 0 ELSE IF Bonded(i, j) THEN 1 ELSE 0
        Matrix(size) ==
            <<>> \o [i \in 1..size |->
                       <<>> \o [j \in 1..size |-> Entry(i, j)]]
    IN  IF out_size < 0
        THEN [err |-> "none", dtype |-> "float32", data |-> Matrix(n)]
        ELSE IF out_size >= n
        THEN [err |-> "none", dtype |-> "float32", data |-> Matrix(out_size)]
        ELSE [err |-> "ValueError", dtype |-> "float32", data |-> <<>>]

\* The molecule's adjacency matrix (1 between bonded atoms) plus the
\* identity (self connection) as float32, zero-padded to out_size
construct_adj_matrix(m, out_size) ==
    LET n == Len(m.atoms)
        Bonded(i, j) ==
            \E b \in m.bonds : {b.begin, b.end} = {i - 1, j - 1}
        Entry(i, j) ==
            IF i > n \/ j > n THEN 0
            ELSE (IF Bonded(i, j) THEN 1 ELSE 0) + (IF i = j THEN 1 ELSE 0)
        Matrix(size) ==
            <<>> \o [i \in 1..size |->
                       <<>> \o [j \in 1..size |-> Entry(i, j)]]
    IN  IF out_size < 0
        THEN [err |-> "none", dtype |-> "float32", data |-> Matrix(n)]
        ELSE IF out_size >= n
        THEN [err |-> "none", dtype |-> "float32", data |-> Matrix(out_size)]
        ELSE [err |-> "ValueError", dtype |-> "float32", data |-> <<>>]

\* NFPPreprocessor.get_input_features(mol): the exception raised, or the
\* arrays returned
get_input_features(self, m) ==
    LET atom_array == construct_atomic_number_array(m, self.out_size)
        adj_array == construct_adj_matrix(m, self.out_size)
    IN  IF self.max_atoms >= 0 /\ Len(m.atoms) > self.max_atoms
        THEN [err |-> "TooManyAtomsError", ret |-> NoFeatures]
        ELSE IF atom_array.err # "none"
        THEN [err |-> atom_array.err, ret |-> NoFeatures]
        ELSE IF adj_array.err # "none"
        THEN [err |-> adj_array.err, ret |-> NoFeatures]
        ELSE [err |-> "none",
              ret |-> <<[dtype |-> atom_array.dtype,
                         data |-> atom_array.data],
                        [dtype |-> adj_array.dtype,
                         data |-> adj_array.data]>>]

PreprocessInit ==
    /\ pp_pc = "start" /\ pp = NoPP /\ pp_args = NoPPArgs /\ pp_err = "none"
    /\ mol = NoMol /\ features = NoFeatures
    /\ NetIdle /\ RsIdle /\ UpIdle

PreprocessorConstruct ==
    /\ pp_pc = "start"
    /\ \E max_atoms \in MaxAtomsArgs, out_size \in OutSizeArgs :
          LET made == NFPPreprocessor_init(max_atoms, out_size)
          IN  /\ pp_args' = [max_atoms |-> max_atoms, out_size |-> out_size]
              /\ pp' = made.pp
              /\ pp_err' = made.err
              /\ pp_pc' = IF made.err = "none" THEN "ready" ELSE "failed"
    /\ UNCHANGED <<mol, features, netvars, rsvars, upvars>>

GetInputFeatures ==
    /\ pp_pc = "ready"
    /\ \E n \in AtomCounts : \E m \in Molecules(n) :
          LET got == get_input_features(pp, m)
          IN  /\ mol' = m
              /\ pp_err' = got.err
              /\ features' = got.ret
    /\ pp_pc' = "done"
    /\ UNCHANGED <<pp, pp_args, netvars, rsvars, upvars>>

PreprocessNext == PreprocessorConstruct \/ GetInputFeatures

SpecPreprocess == PreprocessInit /\ [][PreprocessNext]_vars

\* ============================================================ claims
\* The channel list __init__ works with: [16, 128, 64] for ch_list=None.
ChListUsed == IF args.ch_list = NoChList THEN <<16, 128, 64>> ELSE args.ch_list

\* C1 as stated: constructing RelGCN with input_type 'int' or 'float'
\* succeeds and selects the embedding (EmbedAtomID for 'int', a linear layer
\* for 'float'); any other input_type raises ValueError and yields no model.
C1_AsStated ==
    pc # "start" =>
        /\ args.input_type \in {"int", "float"} =>
              /\ pc # "failed"
              /\ net # NoNet
              /\ net.input_type = args.input_type
              /\ net.embed.kind = IF args.input_type = "int"
                                  THEN "EmbedAtomID" ELSE "GraphLinear"
        /\ args.input_type \notin {"int", "float"} =>
              /\ pc = "failed"
              /\ err = "ValueError"
              /\ net = NoNet

\* C1 amended: with input_type 'int' or 'float' and a ch_list that is None
\* or has at least one entry, construction succeeds and selects the
\* embedding (with an empty ch_list it raises IndexError and yields no
\* model); any other input_type raises ValueError and yields no model.
C1_Amended ==
    pc # "start" =>
        /\ (args.input_type \in {"int", "float"} /\ args.ch_list # <<>>) =>
              /\ pc # "failed"
              /\ net # NoNet
              /\ net.input_type = args.input_type
              /\ net.embed.kind = IF args.input_type = "int"
                                  THEN "EmbedAtomID" ELSE "GraphLinear"
        /\ (args.input_type \in {"int", "float"} /\ args.ch_list = <<>>) =>
              /\ pc = "failed"
              /\ err = "IndexError"
              /\ net = NoNet
        /\ args.input_type \notin {"int", "float"} =>
              /\ pc = "failed"
              /\ err = "ValueError"
              /\ net = NoNet

\* __init__ was given an unexpected input_type and a usable ch_list, and
\* raised ValueError.
C1_Witness ==
    /\ pc = "failed"
    /\ err = "ValueError"
    /\ args.input_type = "onehot"
    /\ Len(args.ch_list) = 2

\* C2: whatever x of shape (batchsize, num_nodes[, in_channels]) and adj of
\* shape (batchsize, num_edge_type, num_nodes, num_nodes) a call is given,
\* the embedding and every update layer yield (batchsize, num_nodes,
\* channels of that stage), the readout yields (batchsize, out_channels),
\* and that is the shape __call__ returns; no stage after the embedding
\* refuses its input.
C2_Shapes ==
    /\ pc \in {"scale", "conv", "return"} =>
          /\ adj.shape[1] = x.shape[1]
          /\ adj.shape[3] = x.shape[2] /\ adj.shape[4] = x.shape[2]
    /\ pc = "scale" => h = <<x.shape[1], x.shape[2], ChListUsed[1]>>
    /\ pc = "conv" => h = <<x.shape[1], x.shape[2], ChListUsed[layer]>>
    /\ pc = "return" => h = <<x.shape[1], args.out_channels>>
    /\ ret # NoShape =>
          /\ Len(ret) = 2
          /\ ret[1] \in Batches
          /\ ret[2] = args.out_channels
    /\ err = "InvalidType" =>
          /\ pc = "ready"
          /\ net.embed.kind = "GraphLinear"
          /\ net.embed.in_size # 0

\* A call on float input, two edge types and two update layers is about to
\* return.
C2_Witness ==
    /\ pc = "return"
    /\ x.dtype = "float32"
    /\ x.shape[2] >= 2
    /\ adj.shape[2] >= 2
    /\ Len(net.rgcn_convs) >= 2
    /\ h = <<x.shape[1], args.out_channels>>

\* C3: with scale_adj the adjacency is rescaled exactly once, after the
\* embedding and before the first update layer, and every update layer
\* receives that rescaled adjacency; without it every update layer receives
\* the caller's adjacency; the readout runs after all update layers have
\* run in ch_list order.
C3_FullTrace(expected) ==
    <<Event("embed", 0, NoArray)>>
    \o (IF net.scale_adj
        THEN <<Event("rescale_adj", 0, expected)>> ELSE <<>>)
    \o [i \in 1..Len(net.rgcn_convs) |-> Event("update", i, expected)]
    \o <<Event("readout", 0, NoArray)>>

C3_Follows(expected) ==
    /\ Len(trace) <= Len(C3_FullTrace(expected))
    /\ trace = SubSeq(C3_FullTrace(expected), 1, Len(trace))
    /\ pc = "return" => trace = C3_FullTrace(expected)
    /\ pc \in {"conv", "return"} => adj = expected
    /\ ~net.scale_adj => adj = adj_in

C3_Order ==
    pc \in {"scale", "conv", "return"} =>
        C3_Follows(IF net.scale_adj THEN rescale_adj(adj_in) ELSE adj_in)

\* A call with scale_adj on an adjacency that rescaling changes has run two
\* update layers and the readout.
C3_Witness ==
    /\ pc = "return"
    /\ net.scale_adj
    /\ Len(net.rgcn_convs) >= 2
    /\ adj # adj_in
    /\ Len(trace) = Len(net.rgcn_convs) + 3

\* C4: rescale_adj divides adj[b, e, i, j] by count[b, j], the sum of
\* adj[b, e, i, j] over all e and i, a count of 0 being replaced by 1; so
\* the entries sharing (b, j) sum to 1 when their count is not 0 and are
\* returned unchanged when it is 0.
C4_Column(a, b, j) ==
    LET ne == a.shape[2]
        nn == a.shape[3]
    IN  [k \in 1..(ne * nn) |-> At(a, <<b, (k - 1) \div nn, (k - 1) % nn, j>>)]

C4_Rescaled ==
    rs_pc = "rescaled" =>
        LET mb == rs_adj.shape[1]
            ne == rs_adj.shape[2]
            nn == rs_adj.shape[3]
        IN  /\ rs_out.shape = rs_adj.shape
            /\ \A b \in 0..(mb - 1), j \in 0..(nn - 1) :
                  LET count == RSumTo(C4_Column(rs_adj, b, j), ne * nn)
                      divisor == IF count = Zero THEN One ELSE count
                  IN  /\ \A e \in 0..(ne - 1), i \in 0..(nn - 1) :
                            RMul(At(rs_out, <<b, e, i, j>>), divisor)
                               = At(rs_adj, <<b, e, i, j>>)
                      /\ count # Zero =>
                            RSumTo(C4_Column(rs_out, b, j), ne * nn) = One
                      /\ count = Zero =>
                            \A e \in 0..(ne - 1), i \in 0..(nn - 1) :
                               At(rs_out, <<b, e, i, j>>)
                                  = At(rs_adj, <<b, e, i, j>>)

\* A rescaled adjacency with two edge types and two nodes in which node 0
\* has two neighbours (one per edge type) and node 1 has none.
C4_Witness ==
    /\ rs_pc = "rescaled"
    /\ rs_adj.shape[2] = 2 /\ rs_adj.shape[3] = 2
    /\ At(rs_adj, <<0, 0, 0, 0>>) = One
    /\ At(rs_adj, <<0, 1, 1, 0>>) = One
    /\ At(rs_out, <<0, 0, 0, 0>>) = <<1, 2>>
    /\ At(rs_out, <<0, 0, 0, 1>>) = Zero

\* C7: RelGCNUpdate gives output[b, i] = self_linear(h[b, i]) + the sum over
\* edge types e and nodes j of adj[b, e, i, j] * edge_linear_e(h[b, j]),
\* edge_linear_e being the rows o * num_edge_type + e (o = 0, 1, ...) of the
\* edge linear layer; h[b, j] enters only where adj[b, e, i, j] is not 0,
\* and a node whose adjacency rows are all 0 gets self_linear(h[b, i]).
C7_Linear(link, row, b, j) ==
    RAdd(RSumTo([c \in 1..link.in_size |->
                    RMul(At(link.W, <<row, c - 1>>),
                         At(up_h, <<b, j, c - 1>>))],
                link.in_size),
         At(link.b, <<row>>))

C7_Message(b, i, o) ==
    LET ne == up_link.num_edge_type
        nn == up_h.shape[2]
    IN  RSumTo([k \in 1..(ne * nn) |->
                  LET e == (k - 1) \div nn
                      j == (k - 1) % nn
                  IN  IF At(up_adj, <<b, e, i, j>>) = Zero THEN Zero
                      ELSE RMul(At(up_adj, <<b, e, i, j>>),
                                C7_Linear(up_link.graph_linear_edge,
                                          o * ne + e, b, j))],
               ne * nn)

C7_Update ==
    up_pc = "done" =>
        LET mb == up_h.shape[1]
            nn == up_h.shape[2]
            ne == up_link.num_edge_type
        IN  /\ up_out.shape = <<mb, nn, up_link.out_ch>>
            /\ \A b \in 0..(mb - 1), i \in 0..(nn - 1),
                  o \in 0..(up_link.out_ch - 1) :
                  /\ At(up_out, <<b, i, o>>)
                        = RAdd(C7_Linear(up_link.graph_linear_self, o, b, i),
                               C7_Message(b, i, o))
                  /\ (\A e \in 0..(ne - 1), j \in 0..(nn - 1) :
                         At(up_adj, <<b, e, i, j>>) = Zero)
                     => At(up_out, <<b, i, o>>)
                           = C7_Linear(up_link.graph_linear_self, o, b, i)

\* An update with two edge types and two output channels in which node 0
\* has node 1 as its only neighbour (by edge type 1), h of node 1 is not 0,
\* and node 1 has no neighbour.
C7_Witness ==
    /\ up_pc = "done"
    /\ up_link.num_edge_type = 2
    /\ up_link.out_ch = 2
    /\ up_h.shape[2] = 2
    /\ At(up_adj, <<0, 1, 0, 1>>) = One
    /\ At(up_h, <<0, 1, 0>>) = One
    /\ \A e \in 0..1, j \in 0..1 : At(up_adj, <<0, e, 1, j>>) = Zero

\* C8: RelGCN builds len(ch_list) - 1 update layers, layer i taking
\* ch_list[i] and producing ch_list[i+1] channels; the embedding produces
\* ch_list[0] and the readout consumes ch_list[-1] channels, so every stage
\* produces what the next consumes; ch_list=None gives [16, 128, 64], two
\* update layers.
C8_Layers ==
    net # NoNet =>
        LET n == Len(ChListUsed)
            convs == net.rgcn_convs
            readout == net.rgcn_readout
        IN  /\ n >= 1
            /\ Len(convs) = n - 1
            /\ \A i \in 1..(n - 1) :
                  /\ convs[i].in_ch = ChListUsed[i]
                  /\ convs[i].out_ch = ChListUsed[i + 1]
                  /\ convs[i].graph_linear_self.in_size = ChListUsed[i]
                  /\ convs[i].graph_linear_self.out_size = ChListUsed[i + 1]
                  /\ convs[i].graph_linear_edge.in_size = ChListUsed[i]
                  /\ convs[i].graph_linear_edge.out_size
                        = ChListUsed[i + 1] * args.num_edge_type
            /\ net.embed.out_size = ChListUsed[1]
            /\ readout.sig_linear.in_size = ChListUsed[n]
            /\ readout.tanh_linear.in_size = ChListUsed[n]
            /\ net.embed.out_size
                  = IF n > 1 THEN convs[1].in_ch
                    ELSE readout.sig_linear.in_size
            /\ \A i \in 1..(n - 2) : convs[i].out_ch = convs[i + 1].in_ch
            /\ n > 1 => convs[n - 1].out_ch = readout.sig_linear.in_size
            /\ args.ch_list = NoChList =>
                  /\ Len(convs) = 2
                  /\ net.embed.out_size = 16
                  /\ convs[1].out_ch = 128
                  /\ convs[2].out_ch = 64
                  /\ readout.sig_linear.in_size = 64

\* A network built from a ch_list of two different channel counts.
C8_Witness ==
    /\ pc = "ready"
    /\ args.ch_list # NoChList
    /\ Len(args.ch_list) = 2
    /\ args.ch_list[1] # args.ch_list[2]
    /\ Len(net.rgcn_convs) = 1

\* What C5 says get_input_features returns for molecule m.
C5_Features(m, f) ==
    LET n == Len(m.atoms)
    IN  /\ Len(f) = 2
        /\ f[1].dtype = "int32"
        /\ Len(f[1].data) = n
        /\ \A i \in 1..n : f[1].data[i] = m.atoms[i]
        /\ f[2].dtype = "float32"
        /\ Len(f[2].data) = n
        /\ \A i \in 1..n :
              /\ Len(f[2].data[i]) = n
              /\ f[2].data[i][i] = 1
              /\ \A j \in 1..n :
                    /\ f[2].data[i][j] = f[2].data[j][i]
                    /\ i # j =>
                          f[2].data[i][j] =
                             IF \E b \in m.bonds :
                                   {b.begin, b.end} = {i - 1, j - 1}
                             THEN 1 ELSE 0

C6_Rejected ==
    /\ ( /\ pp_pc # "start"
         /\ pp_args.out_size >= 0
         /\ pp_args.max_atoms >= 0
         /\ pp_args.out_size < pp_args.max_atoms )
       => pp_pc = "failed" /\ pp_err = "ValueError" /\ pp = NoPP
    /\ (pp # NoPP /\ pp.max_atoms >= 0 /\ pp.out_size >= 0)
       => pp.max_atoms <= pp.out_size

\* NFPPreprocessor(max_atoms=3, out_size=2) was tried.
C6_Witness ==
    /\ pp_pc = "failed"
    /\ pp_args = [max_atoms |-> 3, out_size |-> 2]
    /\ pp_err = "ValueError"

====
